---- MODULE Spec2Model ----
(***************************************************************************)
(* Model of retrace/retrace_main.cpp: the relay-race replay scheduler      *)
(* (RelayRace / RelayRunner), retraceCall with its snapshot stage and the  *)
(* state-dump gate.  One TLA+ process per OS thread; thread l runs the     *)
(* runRace loop of the runner of leg l (thread 0 is the thread that called *)
(* RelayRace::run).  A call is the record of its number, thread id and     *)
(* flags; the history keeps the number and thread id of every parsed call, *)
(* the scheduler's events, and the snapshot events of the call in hand.    *)
(***************************************************************************)
EXTENDS Integers, Sequences, FiniteSets, TLC

\* Bounds of the model.
MaxLen == 3          \* longest trace: parse_call returns at most MaxLen calls
MaxLeg == 2          \* largest recorded thread id
SnapLen == 2         \* longest trace replayed with snapshots
SnapLeg == 1         \* largest recorded thread id of a trace replayed with snapshots
UINT_MOD == 16       \* modulus of the (scaled-down) unsigned type
MaxArgs == 3         \* largest number of command-line arguments

UINT_MAX == UINT_MOD - 1
Legs == 0..MaxLeg
Free == -1
NoCallNo == -1
NullCall == [no |-> NoCallNo, thread_id |-> -1, swapRT |-> FALSE, endFrame |-> FALSE]

VARIABLES
    source,      \* the traces the parser may read: length, thread ids, flags, first number
    parsed,      \* number and thread id of the calls parse_call returned, in order
    eos,         \* parser.parse_call has returned NULL
    cfg,         \* options: dumpStateCallNo, prefixes and frequencies
    runners,     \* RelayRace::runners: runners[l+1] is TRUE for a non-null entry
    finished,    \* RelayRunner::finished, per leg
    baton,       \* RelayRunner::baton, per leg
    mutex,       \* RelayRunner::mutex, per leg: the owning thread or Free
    woken,       \* a signal on wake_cond has reached the waiting thread
    started,     \* number of OS threads started for the leg
    pc,          \* position of each thread
    call,        \* the local variable call of run() / runLeg(), per thread
    tgt,         \* the runner a thread is calling receiveBaton/finishRace on
    ret,         \* where receiveBaton/finishRace returns to
    it,          \* the iterator of stopRunners
    callNo,      \* retrace::callNo
    frameNo,     \* retrace::frameNo
    exited,      \* exit(0) has been called
    log,         \* history of the scheduler's events
    shots,       \* takeSnapshot events of the call being retraced
    endFrames,   \* history: number of END_FRAME calls whose dispatch has returned
    cmd          \* main(): argv, the argument index, the options, the files opened

vars == <<source, parsed, eos, cfg, runners, finished, baton, mutex, woken, started,
          pc, call, tgt, ret, it, callNo, frameNo, exited, log, shots, endFrames, cmd>>

parserVars == <<source, parsed, eos>>
runnerVars == <<runners, finished, baton, started>>
syncVars == <<mutex, woken>>
localVars == <<call, tgt, ret, it>>
counterVars == <<callNo, frameNo>>

\* An event of the history: ev names it, n is a call number or a snapshot
\* index, by the thread; for a write to a runner's baton or finished flag, to
\* is the runner, was the number of the call in its baton and fin its finished
\* flag (for a finish event: whether the parser has reached the end; for a
\* missing reference image: whether getSnapshot would return an image).
Ev(e, n, t) == [ev |-> e, n |-> n, by |-> t, to |-> t, was |-> NoCallNo, fin |-> FALSE]
Handoff(e, n, t, r, b, f) == [ev |-> e, n |-> n, by |-> t, to |-> r, was |-> b, fin |-> f]

----------------------------------------------------------------------------
\* The call source.

\* The flags a call may carry: CALL_FLAG_SWAP_RENDERTARGET, CALL_FLAG_END_FRAME.
Flags == [swapRT : BOOLEAN, endFrame : BOOLEAN]

NoFlags == [swapRT |-> FALSE, endFrame |-> FALSE]

\* Traces of at most len calls of the threads legs, each call with one of
\* flags, numbered consecutively from one of first.
Traces(len, legs, flags, first) ==
    [len |-> len, legs |-> legs, flags |-> flags, first |-> first]

\* The call numbers of a trace are consecutive, starting at 0 or at 1.
NextNos == IF Len(parsed) = 0 THEN source.first ELSE {parsed[Len(parsed)].no + 1}

\* The calls parse_call may return next.
NextCalls ==
    IF Len(parsed) >= source.len THEN {}
    ELSE { [no |-> n, thread_id |-> t, swapRT |-> f.swapRT, endFrame |-> f.endFrame] :
             n \in NextNos, t \in source.legs, f \in source.flags }

CallId(c) == [no |-> c.no, thread_id |-> c.thread_id]

\* call = parser.parse_call() executed by thread self, returning the call c
ParseCall(self, c) ==
    /\ ~eos
    /\ eos' = eos
    /\ source' = source
    /\ parsed' = Append(parsed, CallId(c))
    /\ call' = [call EXCEPT ![self] = c]

\* call = parser.parse_call() executed by thread self, returning NULL
ParseEnd(self) ==
    /\ ~eos
    /\ eos' = TRUE
    /\ source' = source
    /\ parsed' = parsed
    /\ call' = [call EXCEPT ![self] = NullCall]

----------------------------------------------------------------------------
\* Options.

\* trace::CallSet::contains
Contains(cs, c) == cs = "all" \/ (cs = "frame" /\ c.endFrame)

\* main(): -s/-S and -c/-C leave a frequency non-empty only with its prefix set.
Config(dump, snapFreq, cmpFreq) ==
    [dumpStateCallNo |-> dump,
     snapshotPrefix |-> snapFreq # "empty", snapshotFrequency |-> snapFreq,
     comparePrefix |-> cmpFreq # "empty", compareFrequency |-> cmpFreq]

----------------------------------------------------------------------------
\* takeSnapshot(call_no): the events it produces, given whether the reference
\* image exists (readPNG) and whether getSnapshot returns an image.
takeSnapshot(call_no, refOK, capOK, by) ==
    LET entered == <<Ev("snap", call_no, by)>>
        ref == cfg.comparePrefix /\ refOK
    IN  IF cfg.comparePrefix /\ ~refOK
        THEN entered \o <<Handoff("noref", call_no, by, by, NoCallNo, capOK)>>
        ELSE IF ~capOK THEN entered
        ELSE entered
             \o (IF cfg.snapshotPrefix THEN <<Ev("write", call_no, by)>> ELSE <<>>)
             \o (IF ref THEN <<Ev("compare", call_no, by)>> ELSE <<>>)

RefChoices == IF cfg.comparePrefix THEN BOOLEAN ELSE {FALSE}

\* retraceCall: doSnapshot and swapRenderTarget
doSnapshot(c) == Contains(cfg.snapshotFrequency, c) \/ Contains(cfg.compareFrequency, c)

\* (variant: the call's own number whatever its flags)
PreSnapshotNo_Same(c) == c.no

\* retraceCall: the index of the snapshot taken before the call (unsigned arithmetic)
PreSnapshotNo(c) == IF c.endFrame THEN c.no ELSE (c.no - 1) % UINT_MOD

\* (variant: strictly past the threshold)
DumpGate_Strict(c) == c.no > cfg.dumpStateCallNo

\* retraceCall: call->no >= dumpStateCallNo
DumpGate(c) == c.no >= cfg.dumpStateCallNo

----------------------------------------------------------------------------
\* RelayRace::getRunner(leg) on the runners vector.

\* (variant: a runner is constructed at every request)
NeedsRunner_Always(rs, leg) == TRUE

\* getRunner: no runner for the leg yet (beyond the vector, or a null entry)
NeedsRunner(rs, leg) == leg >= Len(rs) \/ ~rs[leg + 1]

Resized(rs, leg) ==
    IF leg >= Len(rs) THEN rs \o [i \in 1..(leg + 1 - Len(rs)) |-> FALSE] ELSE rs

\* getRunner executed by a thread: constructs the runner (and its thread) on demand.
getRunner(leg) ==
    IF NeedsRunner(runners, leg)
    THEN /\ runners' = [Resized(runners, leg) EXCEPT ![leg + 1] = TRUE]
         /\ finished' = [finished EXCEPT ![leg] = FALSE]
         /\ baton' = [baton EXCEPT ![leg] = NullCall]
         /\ started' = [started EXCEPT ![leg] = IF leg # 0 THEN @ + 1 ELSE @]
    ELSE UNCHANGED runnerVars

\* where the thread of a newly constructed runner starts
StartedPc(leg, p) ==
    IF NeedsRunner(runners, leg) /\ leg # 0 THEN [p EXCEPT ![leg] = "race_lock"] ELSE p

-----------------------------------------------------------------------------
\* main(): the command line.  An argument is the sequence of its characters;
\* argv holds argv[1] .. argv[argc - 1], and argv[argc] is the null pointer.

NUL == "NUL"
NullStr == <<"NULL">>

\* arg[k] of a C string
CharAt(arg, k) == IF k < Len(arg) THEN arg[k + 1] ELSE NUL

ARG_END == <<"-", "-">>
ARG_HELP == <<"-", "-", "h", "e", "l", "p">>
ARG_b == <<"-", "b">>
ARG_c == <<"-", "c">>
ARG_C == <<"-", "C">>
ARG_D == <<"-", "D">>
ARG_core == <<"-", "c", "o", "r", "e">>
ARG_db == <<"-", "d", "b">>
ARG_sb == <<"-", "s", "b">>
ARG_s == <<"-", "s">>
ARG_S == <<"-", "S">>
ARG_v == <<"-", "v">>
ARG_w == <<"-", "w">>
ARG_pcpu == <<"-", "p", "c", "p", "u">>
ARG_pgpu == <<"-", "p", "g", "p", "u">>
ARG_ppd == <<"-", "p", "p", "d">>

\* the options usage() lists, and the two main() compares against besides
Documented ==
    {ARG_b, ARG_pcpu, ARG_pgpu, ARG_ppd, ARG_c, ARG_C, ARG_core, ARG_db, ARG_sb, ARG_s,
     ARG_S, ARG_v, ARG_D, ARG_w, ARG_END, ARG_HELP}

\* the arguments the command lines are drawn from: options with and without
\* a value, undocumented arguments that start with '-', a number, file names
Args ==
    {ARG_END, ARG_b, ARG_c, ARG_D, ARG_v, ARG_pcpu, <<"-", "p", "x">>, <<"-", "x">>,
     <<"-">>, <<"1">>, <<"a">>}

ArgLists == UNION {[1..n -> Args] : n \in 0..MaxArgs}

\* the static and retrace:: option variables, as initialised
DefaultOptions ==
    [debug |-> TRUE, verbosity |-> 0, dumpingState |-> FALSE, doubleBuffer |-> TRUE,
     coreProfile |-> FALSE, profiling |-> FALSE, profilingGpuTimes |-> FALSE,
     profilingCpuTimes |-> FALSE, profilingPixelsDrawn |-> FALSE, waitOnFinish |-> FALSE,
     comparePrefix |-> NullStr, snapshotPrefix |-> NullStr,
     snapshotFrequency |-> "empty", compareFrequency |-> "empty",
     dumpStateCallNo |-> UINT_MAX, binaryStdout |-> FALSE]

Running == -1
EXIT_OK == 0
EXIT_ERROR == 1
SIGSEGV == 139

\* main() at its entry with the arguments argv
Command(argv) ==
    [argv |-> argv, i |-> 1, at |-> "options", status |-> Running, msg |-> "",
     opts |-> DefaultOptions, brk |-> 0, setUp |-> FALSE, opened |-> <<>>,
     replayed |-> <<>>]

\* In the specifications of one replay main() stays inside its call of
\* mainLoop; the options in force are those of cfg.
InMainLoop == [Command(<<>>) EXCEPT !.at = "mainLoop"]

Digits == <<"0", "1", "2", "3", "4", "5", "6", "7", "8", "9">>
IsDigit(ch) == \E d \in 1..10 : Digits[d] = ch
DigitVal(ch) == (CHOOSE d \in 1..10 : Digits[d] = ch) - 1

\* atoi: the value of the leading digits, after an optional sign
RECURSIVE atoiFrom(_, _, _)
atoiFrom(str, k, acc) ==
    IF k <= Len(str) /\ IsDigit(str[k])
    THEN atoiFrom(str, k + 1, 10 * acc + DigitVal(str[k]))
    ELSE acc

atoi(str) ==
    IF CharAt(str, 0) = "-" THEN 0 - atoiFrom(str, 2, 0)
    ELSE IF CharAt(str, 0) = "+" THEN atoiFrom(str, 2, 0)
    ELSE atoiFrom(str, 1, 0)

Return(c, st, m) == [c EXCEPT !.at = "exit", !.status = st, !.msg = m]

\* break out of the option loop: i still indexes the argument looked at
Break(c) == [c EXCEPT !.at = "setUp", !.brk = c.i]

\* the end of an iteration of the option loop that consumed k arguments
\* (the option, and its value when it takes one through argv[++i])
Consumed(c, o, k) == [c EXCEPT !.opts = o, !.i = c.i + k]

\* else if (arg[1] == 'p')
IsProfilingArg(arg) == CharAt(arg, 1) = "p"

\* if (!strcmp(arg, "--")) break;
AfterEndOfOptions(c) == Break(c)

\* One iteration of the first loop of main(), as the set of its outcomes.
\* Reading through a null argv[++i] (atoi, CallSet, snapshotPrefix[0]) is
\* undefined: the process dies of it or goes on with a value that was not given.
OptionResults(c) ==
    LET arg == c.argv[c.i]
        val == IF c.i + 1 <= Len(c.argv) THEN c.argv[c.i + 1] ELSE NullStr
        o == c.opts
        Undefined(o2) == {Return(c, SIGSEGV, ""), Consumed(c, o2, 2)}
    IN  IF CharAt(arg, 0) # "-" THEN {Break(c)}
        ELSE IF arg = ARG_END THEN {AfterEndOfOptions(c)}
        ELSE IF arg = ARG_b
        THEN {Consumed(c, [o EXCEPT !.debug = FALSE, !.verbosity = -1], 1)}
        ELSE IF arg = ARG_c
        THEN {Consumed(c, [o EXCEPT !.comparePrefix = val,
                                    !.compareFrequency =
                                        IF @ = "empty" THEN "frame" ELSE @], 2)}
        ELSE IF arg = ARG_C
        THEN LET o2 == [o EXCEPT !.compareFrequency = "given",
                                 !.comparePrefix = IF @ = NullStr THEN <<>> ELSE @]
             IN  IF val = NullStr THEN Undefined(o2) ELSE {Consumed(c, o2, 2)}
        ELSE IF arg = ARG_D
        THEN LET o2(n) == [o EXCEPT !.dumpStateCallNo = n % UINT_MOD,
                                    !.dumpingState = TRUE, !.verbosity = -2]
             IN  IF val = NullStr THEN Undefined(o2(0)) ELSE {Consumed(c, o2(atoi(val)), 2)}
        ELSE IF arg = ARG_core THEN {Consumed(c, [o EXCEPT !.coreProfile = TRUE], 1)}
        ELSE IF arg = ARG_db THEN {Consumed(c, [o EXCEPT !.doubleBuffer = TRUE], 1)}
        ELSE IF arg = ARG_sb THEN {Consumed(c, [o EXCEPT !.doubleBuffer = FALSE], 1)}
        ELSE IF arg = ARG_HELP THEN {Return(c, EXIT_OK, "usage")}
        ELSE IF arg = ARG_s
        THEN LET o2 == [o EXCEPT !.snapshotPrefix = val,
                                 !.snapshotFrequency = IF @ = "empty" THEN "frame" ELSE @]
                 o3 == IF val = <<"-">>
                       THEN [o2 EXCEPT !.binaryStdout = TRUE, !.verbosity = -2] ELSE o2
             IN  IF val = NullStr THEN Undefined(o2) ELSE {Consumed(c, o3, 2)}
        ELSE IF arg = ARG_S
        THEN LET o2 == [o EXCEPT !.snapshotFrequency = "given",
                                 !.snapshotPrefix = IF @ = NullStr THEN <<>> ELSE @]
             IN  IF val = NullStr THEN Undefined(o2) ELSE {Consumed(c, o2, 2)}
        ELSE IF arg = ARG_v THEN {Consumed(c, [o EXCEPT !.verbosity = @ + 1], 1)}
        ELSE IF arg = ARG_w THEN {Consumed(c, [o EXCEPT !.waitOnFinish = TRUE], 1)}
        ELSE IF IsProfilingArg(arg)
        THEN {Consumed(c, [o EXCEPT !.debug = FALSE, !.profiling = TRUE, !.verbosity = -1,
                                    !.profilingCpuTimes = @ \/ arg = ARG_pcpu,
                                    !.profilingGpuTimes = @ \/ arg = ARG_pgpu,
                                    !.profilingPixelsDrawn = @ \/ arg = ARG_ppd], 1)}
        ELSE {Return(c, EXIT_ERROR, "unknown option")}

----------------------------------------------------------------------------
\* Initial state: mainLoop has reset frameNo and constructed the RelayRace
\* (runners holds the fore runner only); no call has been parsed.
InitRun(c, tr, no, m) ==
    /\ source = tr
    /\ parsed = <<>>
    /\ eos = FALSE
    /\ cfg = c
    /\ runners = <<TRUE>>
    /\ finished = [l \in Legs |-> FALSE]
    /\ baton = [l \in Legs |-> NullCall]
    /\ mutex = [l \in Legs |-> Free]
    /\ woken = [l \in Legs |-> FALSE]
    /\ started = [l \in Legs |-> 0]
    /\ pc = [l \in Legs |-> IF l = 0 THEN "run_parse" ELSE "unborn"]
    /\ call = [l \in Legs |-> NullCall]
    /\ tgt = [l \in Legs |-> 0]
    /\ ret = [l \in Legs |-> "none"]
    /\ it = 0
    /\ callNo = no
    /\ frameNo = 0
    /\ exited = FALSE
    /\ log = <<>>
    /\ shots = <<>>
    /\ endFrames = 0
    /\ cmd = m

\* the replay of the first trace file of the command line: callNo is still 0
InitState(c, tr) == InitRun(c, tr, 0, InMainLoop)

\* State-dump gate disabled (dumpStateCallNo = ~0), no snapshots: the flags
\* and the numbers of the calls have no effect on the replay.
Init == InitState(Config(UINT_MAX, "empty", "empty"), Traces(MaxLen, Legs, {NoFlags}, {0}))

Goto(self, p) == pc' = [pc EXCEPT ![self] = p]

----------------------------------------------------------------------------
\* RelayRace::run

\* (variant: the lead runner's race is entered although the trace is empty)
AfterEmptyTrace_Race == "race_lock"

\* if (!call) { /* Nothing to do */ return; }
AfterEmptyTrace == "returned"

\* call = parser.parse_call(); if (!call) return;
RunParse(self) ==
    /\ ~exited /\ pc[self] = "run_parse"
    /\ UNCHANGED <<endFrames, cmd>>
    /\ \/ \E c \in NextCalls : ParseCall(self, c) /\ Goto(self, "run_fore")
       \/ ParseEnd(self) /\ Goto(self, AfterEmptyTrace)
    /\ UNCHANGED <<cfg, runnerVars, syncVars, tgt, ret, it, counterVars, exited, log>>
    /\ UNCHANGED shots

\* RelayRunner *foreRunner = getForeRunner();
RunFore(self) ==
    /\ ~exited /\ pc[self] = "run_fore"
    /\ UNCHANGED <<endFrames, cmd>>
    /\ getRunner(0)
    /\ pc' = StartedPc(0, [pc EXCEPT ![self] = "run_route"])
    /\ UNCHANGED <<parserVars, cfg, syncVars, localVars, counterVars, exited, log, shots>>

\* foreRunner->baton = call, or passBaton(call); then foreRunner->runRace()
RunRoute(self) ==
    /\ ~exited /\ pc[self] = "run_route"
    /\ UNCHANGED <<endFrames, cmd>>
    /\ IF call[self].thread_id = 0
       THEN /\ baton' = [baton EXCEPT ![0] = call[self]]
            /\ log' = Append(log, Handoff("baton", call[self].no, self, 0, baton[0].no, finished[0]))
            /\ call' = [call EXCEPT ![self] = NullCall]
            /\ Goto(self, "race_lock")
            /\ UNCHANGED ret
       ELSE /\ Goto(self, "pass_get")
            /\ ret' = [ret EXCEPT ![self] = "race_lock"]
            /\ UNCHANGED <<baton, log, call>>
    /\ UNCHANGED <<parserVars, cfg, runners, finished, started, syncVars, tgt, it,
                   counterVars, exited>>
    /\ UNCHANGED shots

----------------------------------------------------------------------------
\* RelayRace::passBaton and RelayRunner::receiveBaton

\* (variant: every call is routed to the fore runner)
BatonLeg_Fore(c) == 0

\* the runner a call is routed to: getRunner(call->thread_id)
BatonLeg(c) == c.thread_id

\* (variant: the signal reaches nobody)
Signal_Lost(w, waiting) == w

\* wake_cond.signal(): wakes the thread waiting on the condition, if any
Signal(w, waiting) == w \/ waiting

\* (variant: the runner goes on parsing after the handoff)
AfterHandoff_Continue == "leg_parse"

\* runLeg returns into the loop of runRace once the baton is passed
AfterHandoff == "race_check"

\* RelayRunner *runner = getRunner(call->thread_id);
PassGet(self) ==
    /\ ~exited /\ pc[self] = "pass_get"
    /\ UNCHANGED <<endFrames, cmd>>
    /\ LET leg == BatonLeg(call[self])
       IN  /\ getRunner(leg)
           /\ tgt' = [tgt EXCEPT ![self] = leg]
           /\ pc' = StartedPc(leg, [pc EXCEPT ![self] = "recv_lock"])
    /\ UNCHANGED <<parserVars, cfg, syncVars, call, ret, it, counterVars, exited, log>>
    /\ UNCHANGED shots

\* mutex.lock();
RecvLock(self) ==
    /\ ~exited /\ pc[self] = "recv_lock"
    /\ UNCHANGED <<endFrames, cmd>>
    /\ mutex[tgt[self]] = Free
    /\ mutex' = [mutex EXCEPT ![tgt[self]] = self]
    /\ Goto(self, "recv_set")
    /\ UNCHANGED <<parserVars, cfg, runnerVars, woken, localVars, counterVars, exited, log>>
    /\ UNCHANGED shots

\* baton = call;
RecvSet(self) ==
    /\ ~exited /\ pc[self] = "recv_set"
    /\ UNCHANGED <<endFrames, cmd>>
    /\ baton' = [baton EXCEPT ![tgt[self]] = call[self]]
    /\ log' = Append(log, Handoff("baton", call[self].no, self, tgt[self],
                                   baton[tgt[self]].no, finished[tgt[self]]))
    /\ Goto(self, "recv_unlock")
    /\ UNCHANGED <<parserVars, cfg, runners, finished, started, syncVars, localVars,
                   counterVars, exited>>
    /\ UNCHANGED shots

\* mutex.unlock();
RecvUnlock(self) ==
    /\ ~exited /\ pc[self] = "recv_unlock"
    /\ UNCHANGED <<endFrames, cmd>>
    /\ mutex' = [mutex EXCEPT ![tgt[self]] = Free]
    /\ Goto(self, "recv_signal")
    /\ UNCHANGED <<parserVars, cfg, runnerVars, woken, localVars, counterVars, exited, log>>
    /\ UNCHANGED shots

\* wake_cond.signal(); return from receiveBaton, passBaton (and runLeg)
RecvSignal(self) ==
    /\ ~exited /\ pc[self] = "recv_signal"
    /\ UNCHANGED <<endFrames, cmd>>
    /\ woken' = [woken EXCEPT ![tgt[self]] = Signal(@, pc[tgt[self]] = "waiting")]
    /\ Goto(self, ret[self])
    /\ call' = [call EXCEPT ![self] = NullCall]
    /\ UNCHANGED <<parserVars, cfg, runnerVars, mutex, tgt, ret, it, counterVars, exited, log>>
    /\ UNCHANGED shots

----------------------------------------------------------------------------
\* RelayRunner::runRace

\* while (!finished && !baton): the runner has to wait
MustWait(f, b) == ~f /\ b = NullCall

\* (variant: the baton is left in the slot)
BatonAfterTake_Kept(b) == b

\* baton = 0; after call = baton
BatonAfterTake(b) == NullCall

\* os::unique_lock<os::mutex> lock(mutex);
RaceLock(self) ==
    /\ ~exited /\ pc[self] = "race_lock"
    /\ UNCHANGED <<endFrames, cmd>>
    /\ mutex[self] = Free
    /\ mutex' = [mutex EXCEPT ![self] = self]
    /\ Goto(self, "race_check")
    /\ UNCHANGED <<parserVars, cfg, runnerVars, woken, localVars, counterVars, exited, log>>
    /\ UNCHANGED shots

\* while (!finished && !baton) wake_cond.wait(lock);
\* if (finished) break;  call = baton; baton = 0; runLeg(call);
RaceCheck(self) ==
    /\ ~exited /\ pc[self] = "race_check"
    /\ UNCHANGED <<endFrames, cmd>>
    /\ IF MustWait(finished[self], baton[self])
       THEN /\ mutex' = [mutex EXCEPT ![self] = Free]
            /\ woken' = [woken EXCEPT ![self] = FALSE]
            /\ Goto(self, "waiting")
            /\ UNCHANGED <<baton, call>>
       ELSE IF finished[self]
       THEN /\ Goto(self, "race_exit")
            /\ UNCHANGED <<baton, call, syncVars>>
       ELSE /\ call' = [call EXCEPT ![self] = baton[self]]
            /\ baton' = [baton EXCEPT ![self] = BatonAfterTake(baton[self])]
            /\ Goto(self, "leg_pre")
            /\ UNCHANGED syncVars
    /\ UNCHANGED <<parserVars, cfg, runners, finished, started, tgt, ret, it,
                   counterVars, exited, log>>
    /\ UNCHANGED shots

\* wake_cond.wait returns: the waiter was signalled and reacquires the mutex
Wake(self) ==
    /\ ~exited /\ pc[self] = "waiting"
    /\ UNCHANGED <<endFrames, cmd>>
    /\ woken[self]
    /\ mutex[self] = Free
    /\ mutex' = [mutex EXCEPT ![self] = self]
    /\ woken' = [woken EXCEPT ![self] = FALSE]
    /\ Goto(self, "race_check")
    /\ UNCHANGED <<parserVars, cfg, runnerVars, localVars, counterVars, exited, log>>
    /\ UNCHANGED shots

\* wake_cond.wait returns without a signal (spurious wake-up)
SpuriousWake(self) ==
    /\ ~exited /\ pc[self] = "waiting"
    /\ UNCHANGED <<endFrames, cmd>>
    /\ ~woken[self]
    /\ mutex[self] = Free
    /\ mutex' = [mutex EXCEPT ![self] = self]
    /\ Goto(self, "race_check")
    /\ UNCHANGED <<parserVars, cfg, runnerVars, woken, localVars, counterVars, exited, log>>
    /\ UNCHANGED shots

\* after the loop: the fore runner calls race->stopRunners(), any other
\* runner returns from runRace (releasing the lock) and its thread ends
RaceExit(self) ==
    /\ ~exited /\ pc[self] = "race_exit"
    /\ UNCHANGED <<endFrames, cmd>>
    /\ IF self = 0
       THEN /\ it' = 1
            /\ Goto(self, "stop_loop")
            /\ UNCHANGED mutex
       ELSE /\ mutex' = [mutex EXCEPT ![self] = Free]
            /\ Goto(self, "done")
            /\ UNCHANGED it
    /\ UNCHANGED <<parserVars, cfg, runnerVars, woken, call, tgt, ret, counterVars, exited, log>>
    /\ UNCHANGED shots

----------------------------------------------------------------------------
\* RelayRace::stopRunners, RelayRace::finishLine and RelayRunner::finishRace

\* one iteration of the loop of stopRunners (the iterator advances past the
\* runner being finished); at the end runRace and run() return
StopLoop(self) ==
    /\ ~exited /\ pc[self] = "stop_loop"
    /\ UNCHANGED <<endFrames, cmd>>
    /\ IF it >= Len(runners)
       THEN /\ mutex' = [mutex EXCEPT ![self] = Free]
            /\ Goto(self, "returned")
            /\ UNCHANGED <<it, tgt, ret>>
       ELSE /\ it' = it + 1
            /\ IF runners[it + 1]
               THEN /\ tgt' = [tgt EXCEPT ![self] = it]
                    /\ ret' = [ret EXCEPT ![self] = "stop_loop"]
                    /\ Goto(self, "fin_lock")
               ELSE /\ UNCHANGED <<tgt, ret, pc>>
            /\ UNCHANGED mutex
    /\ UNCHANGED <<parserVars, cfg, runnerVars, woken, call, counterVars, exited, log>>
    /\ UNCHANGED shots

\* RelayRunner *foreRunner = getForeRunner(); foreRunner->finishRace();
FinishLine(self) ==
    /\ ~exited /\ pc[self] = "finish_line"
    /\ UNCHANGED <<endFrames, cmd>>
    /\ getRunner(0)
    /\ tgt' = [tgt EXCEPT ![self] = 0]
    /\ ret' = [ret EXCEPT ![self] = "race_check"]
    /\ pc' = StartedPc(0, [pc EXCEPT ![self] = "fin_lock"])
    /\ UNCHANGED <<parserVars, cfg, syncVars, call, it, counterVars, exited, log>>
    /\ UNCHANGED shots

\* mutex.lock();
FinLock(self) ==
    /\ ~exited /\ pc[self] = "fin_lock"
    /\ UNCHANGED <<endFrames, cmd>>
    /\ mutex[tgt[self]] = Free
    /\ mutex' = [mutex EXCEPT ![tgt[self]] = self]
    /\ Goto(self, "fin_set")
    /\ UNCHANGED <<parserVars, cfg, runnerVars, woken, localVars, counterVars, exited, log>>
    /\ UNCHANGED shots

\* finished = true;
FinSet(self) ==
    /\ ~exited /\ pc[self] = "fin_set"
    /\ UNCHANGED <<endFrames, cmd>>
    /\ finished' = [finished EXCEPT ![tgt[self]] = TRUE]
    /\ log' = Append(log, Handoff("finish", NoCallNo, self, tgt[self], baton[tgt[self]].no, eos))
    /\ Goto(self, "fin_unlock")
    /\ UNCHANGED <<parserVars, cfg, runners, baton, started, syncVars, localVars,
                   counterVars, exited>>
    /\ UNCHANGED shots

\* mutex.unlock();
FinUnlock(self) ==
    /\ ~exited /\ pc[self] = "fin_unlock"
    /\ UNCHANGED <<endFrames, cmd>>
    /\ mutex' = [mutex EXCEPT ![tgt[self]] = Free]
    /\ Goto(self, "fin_signal")
    /\ UNCHANGED <<parserVars, cfg, runnerVars, woken, localVars, counterVars, exited, log>>
    /\ UNCHANGED shots

\* wake_cond.signal(); return from finishRace
FinSignal(self) ==
    /\ ~exited /\ pc[self] = "fin_signal"
    /\ UNCHANGED <<endFrames, cmd>>
    /\ woken' = [woken EXCEPT ![tgt[self]] = Signal(@, pc[tgt[self]] = "waiting")]
    /\ Goto(self, ret[self])
    /\ UNCHANGED <<parserVars, cfg, runnerVars, mutex, localVars, counterVars, exited, log>>
    /\ UNCHANGED shots

----------------------------------------------------------------------------
\* RelayRunner::runLeg and retraceCall

\* retraceCall, up to the dispatch: the snapshot before a call that swaps
\* the render target
LegPre(self) ==
    /\ ~exited /\ pc[self] = "leg_pre"
    /\ UNCHANGED <<endFrames, cmd>>
    /\ LET c == call[self]
       IN  IF doSnapshot(c) /\ c.swapRT
           THEN \E refOK \in RefChoices, capOK \in BOOLEAN :
                   shots' = shots \o takeSnapshot(PreSnapshotNo(c), refOK, capOK, self)
           ELSE shots' = shots
    /\ Goto(self, "leg_dispatch")
    /\ UNCHANGED <<parserVars, cfg, runnerVars, syncVars, localVars, counterVars, exited, log>>

\* (variant: callNo keeps its value)
callNoAt_Stale(c, old) == old

\* callNo = call->no;
callNoAt(c, old) == c.no

\* callNo = call->no; retracer.retrace(*call) begins
LegDispatch(self) ==
    /\ ~exited /\ pc[self] = "leg_dispatch"
    /\ UNCHANGED <<endFrames, cmd>>
    /\ callNo' = callNoAt(call[self], callNo)
    /\ log' = Append(log, Ev("begin", call[self].no, self))
    /\ shots' = Append(shots, Ev("begin", call[self].no, self))
    /\ Goto(self, "leg_retrace")
    /\ UNCHANGED <<parserVars, cfg, runnerVars, syncVars, localVars, frameNo, exited>>

\* (variant: every call completes a frame)
frameComplete_Every(c, n) == n + 1

\* frameComplete, called by the handler of a call that ends a frame
frameComplete(c, n) == IF c.endFrame THEN n + 1 ELSE n

\* retracer.retrace(*call) returns
LegRetrace(self) ==
    /\ ~exited /\ pc[self] = "leg_retrace"
    /\ endFrames' = endFrames + (IF call[self].endFrame THEN 1 ELSE 0)
    /\ UNCHANGED cmd
    /\ frameNo' = frameComplete(call[self], frameNo)
    /\ log' = Append(log, Ev("end", call[self].no, self))
    /\ shots' = Append(shots, Ev("end", call[self].no, self))
    /\ Goto(self, "leg_post")
    /\ UNCHANGED <<parserVars, cfg, runnerVars, syncVars, localVars, callNo, exited>>

\* retraceCall after the dispatch: the snapshot after the call, then the
\* state-dump gate (dumpState may fail; exit(0) when it succeeds)
LegPost(self) ==
    /\ ~exited /\ pc[self] = "leg_post"
    /\ UNCHANGED <<endFrames, cmd>>
    /\ LET c == call[self]
           snaps(refOK, capOK) ==
               IF doSnapshot(c) /\ ~c.swapRT
               THEN takeSnapshot(c.no, refOK, capOK, self) ELSE <<>>
           SnapChoices == IF doSnapshot(c) /\ ~c.swapRT THEN BOOLEAN ELSE {FALSE}
       IN  \E refOK \in RefChoices \cap SnapChoices, capOK \in SnapChoices :
              /\ shots' = shots \o snaps(refOK, capOK)
              /\ IF DumpGate(c)
                 THEN \E dumped \in BOOLEAN :
                         /\ log' = Append(log, Ev(IF dumped THEN "dump" ELSE "nodump",
                                                  call[self].no, self))
                         /\ exited' = dumped
                         /\ Goto(self, IF dumped THEN "exit" ELSE "leg_parse")
                 ELSE /\ log' = log
                      /\ exited' = exited
                      /\ Goto(self, "leg_parse")
    /\ UNCHANGED <<parserVars, cfg, runnerVars, syncVars, localVars, counterVars>>

\* delete call; call = parser.parse_call();
LegParse(self) ==
    /\ ~exited /\ pc[self] = "leg_parse"
    /\ UNCHANGED <<endFrames, cmd>>
    /\ \/ \E c \in NextCalls : ParseCall(self, c)
       \/ ParseEnd(self)
    /\ shots' = <<>>
    /\ Goto(self, "leg_branch")
    /\ UNCHANGED <<cfg, runnerVars, syncVars, tgt, ret, it, counterVars, exited, log>>

\* while (call && call->thread_id == leg); then pass the baton, notify the
\* fore runner, or (fore runner) finished = true
\* flushRendering left out of the handoff
flushRendering_Skipped(n, self) == <<>>

\* flushRendering() of runLeg, run by the thread about to pass the call
\* numbered n on: the events it adds to the run's history
flushRendering(n, self) == <<Ev("flush", n, self)>>

LegBranch(self) ==
    /\ ~exited /\ pc[self] = "leg_branch"
    /\ UNCHANGED <<endFrames, cmd>>
    /\ IF call[self] # NullCall /\ call[self].thread_id = self
       THEN /\ Goto(self, "leg_pre")
            /\ UNCHANGED <<finished, ret, log>>
       ELSE IF call[self] # NullCall
       THEN /\ log' = log \o flushRendering(call[self].no, self)
            /\ ret' = [ret EXCEPT ![self] = AfterHandoff]
            /\ Goto(self, "pass_get")
            /\ UNCHANGED finished
       ELSE IF self # 0
       THEN /\ Goto(self, "finish_line")
            /\ UNCHANGED <<finished, ret, log>>
       ELSE /\ finished' = [finished EXCEPT ![self] = TRUE]
            /\ log' = Append(log, Handoff("finish", NoCallNo, self, self, baton[self].no, eos))
            /\ Goto(self, "race_check")
            /\ UNCHANGED ret
    /\ UNCHANGED <<parserVars, cfg, runners, baton, started, syncVars, call, tgt, it,
                   counterVars, exited>>
    /\ UNCHANGED shots

\* mainLoop after race.run(): the RelayRace goes out of scope and ~RelayRace
\* deletes every runner of the vector.  Nothing is joined; a thread that is
\* still inside runRace goes on using its deleted runner.
Destroy(self) ==
    /\ ~exited /\ self = 0 /\ pc[self] = "returned"
    /\ Goto(self, "destroyed")
    /\ UNCHANGED <<parserVars, cfg, runnerVars, syncVars, localVars, counterVars, exited,
                   log, shots, endFrames, cmd>>

-----------------------------------------------------------------------------
\* main()

schedVars == <<source, parsed, eos, cfg, runners, finished, baton, mutex, woken, started,
               pc, call, tgt, ret, it, callNo, frameNo, exited, log, shots, endFrames>>

\* for (i = 1; i < argc; ++i) { ... }: one iteration, or the end of the loop
MainOption ==
    /\ cmd.at = "options"
    /\ IF cmd.i > Len(cmd.argv)
       THEN cmd' = Break(cmd)
       ELSE cmd' \in OptionResults(cmd)
    /\ UNCHANGED schedVars

\* retrace::setUp(); profiler.setup(...) when profiling
MainSetUp ==
    /\ cmd.at = "setUp"
    /\ cmd' = [cmd EXCEPT !.at = "files", !.setUp = TRUE]
    /\ UNCHANGED schedVars

\* for ( ; i < argc; ++i): parser.open(argv[i]) succeeds or fails; the replay
\* of the file (mainLoop, parser.close) is one step here; return 0 at the end
MainFile ==
    /\ cmd.at = "files"
    /\ IF cmd.i > Len(cmd.argv)
       THEN cmd' = Return(cmd, EXIT_OK, "")
       ELSE \E opens \in BOOLEAN :
               LET file == cmd.argv[cmd.i]
                   tried == [cmd EXCEPT !.opened = Append(@, file)]
               IN  cmd' = IF opens
                          THEN [tried EXCEPT !.replayed = Append(@, file), !.i = @ + 1]
                          ELSE Return(tried, EXIT_ERROR, "failed to open")
    /\ UNCHANGED schedVars

MainNext == MainOption \/ MainSetUp \/ MainFile

\* main() entered with a command line of at most MaxArgs arguments
MainInit ==
    \E argv \in ArgLists :
        InitRun(Config(UINT_MAX, "empty", "empty"), Traces(0, {0}, {NoFlags}, {0}), 0,
                Command(argv))

MainSpec == MainInit /\ [][MainNext]_vars

----------------------------------------------------------------------------
Next ==
    \/ \E self \in Legs : RunParse(self)
    \/ \E self \in Legs : RunFore(self)
    \/ \E self \in Legs : RunRoute(self)
    \/ \E self \in Legs : PassGet(self)
    \/ \E self \in Legs : RecvLock(self)
    \/ \E self \in Legs : RecvSet(self)
    \/ \E self \in Legs : RecvUnlock(self)
    \/ \E self \in Legs : RecvSignal(self)
    \/ \E self \in Legs : RaceLock(self)
    \/ \E self \in Legs : RaceCheck(self)
    \/ \E self \in Legs : Wake(self)
    \/ \E self \in Legs : SpuriousWake(self)
    \/ \E self \in Legs : RaceExit(self)
    \/ \E self \in Legs : StopLoop(self)
    \/ \E self \in Legs : FinishLine(self)
    \/ \E self \in Legs : FinLock(self)
    \/ \E self \in Legs : FinSet(self)
    \/ \E self \in Legs : FinUnlock(self)
    \/ \E self \in Legs : FinSignal(self)
    \/ \E self \in Legs : LegPre(self)
    \/ \E self \in Legs : LegDispatch(self)
    \/ \E self \in Legs : LegRetrace(self)
    \/ \E self \in Legs : LegPost(self)
    \/ \E self \in Legs : LegParse(self)
    \/ \E self \in Legs : LegBranch(self)
    \/ \E self \in Legs : Destroy(self)

Spec == Init /\ [][Next]_vars

\* The steps of one thread, a spurious wake-up excepted.
ThreadStep(self) ==
    \/ RunParse(self) \/ RunFore(self) \/ RunRoute(self) \/ PassGet(self) \/ RecvSet(self)
    \/ RecvUnlock(self) \/ RecvSignal(self) \/ RaceCheck(self) \/ RaceExit(self)
    \/ StopLoop(self) \/ FinishLine(self) \/ FinSet(self) \/ FinUnlock(self)
    \/ FinSignal(self) \/ LegPre(self) \/ LegDispatch(self) \/ LegRetrace(self)
    \/ LegPost(self) \/ LegParse(self) \/ LegBranch(self) \/ Destroy(self)

\* The steps in which a thread acquires a mutex.
LockStep(self) == RaceLock(self) \/ RecvLock(self) \/ FinLock(self) \/ Wake(self)

\* Every thread keeps running, and a thread that finds the mutex it needs
\* free again and again eventually gets it.
Fairness == \A self \in Legs : WF_vars(ThreadStep(self)) /\ SF_vars(LockStep(self))

FairSpec == Init /\ [][Next]_vars /\ Fairness

\* State dump requested at call number T (-D T), no snapshots; the calls are
\* numbered from 1, so that T = 0 lies before the first call.
InitDump ==
    \E T \in 0..MaxLen :
        InitState(Config(T, "empty", "empty"), Traces(MaxLen, Legs, {NoFlags}, {1}))

DumpSpec == InitDump /\ [][Next]_vars

\* Snapshots and/or comparison requested (-s/-S, -c/-C), no state dump.
InitSnap ==
    \E sf \in {"empty", "frame", "all"}, cf \in {"empty", "frame", "all"} :
        /\ sf # "empty" \/ cf # "empty"
        /\ InitState(Config(UINT_MAX, sf, cf), Traces(SnapLen, 0..SnapLeg, Flags, {0, 1}))

SnapSpec == InitSnap /\ [][Next]_vars

\* The replay of a trace file that follows another one on the command line:
\* mainLoop resets frameNo but not callNo, which holds the number of the last
\* call dispatched from the file before (0 .. MaxLen here); no options.
InitNextFile ==
    \E last \in 0..MaxLen :
        InitRun(Config(UINT_MAX, "empty", "empty"), Traces(MaxLen, Legs, {NoFlags}, {0}),
                last, InMainLoop)

NextFileSpec == InitNextFile /\ [][Next]_vars

----------------------------------------------------------------------------
\* Properties.

\* the dispatch events of the history
DispatchLog == SelectSeq(log, LAMBDA e : e.ev \in {"begin", "end"})

EventsOf(e, n) == {i \in 1..Len(log) : log[i].ev = e /\ log[i].n = n}

\* the recorded thread id of the call numbered n
ThreadOf(n) == parsed[CHOOSE k \in 1..Len(parsed) : parsed[k].no = n].thread_id

RunReturned == pc[0] \in {"returned", "destroyed"}

\* C1: calls are dispatched in trace stream order: no event of the dispatch
\* of a call follows an event of the dispatch of a call with a larger
\* number, and when the dispatch of a call begins the dispatch of every call
\* parsed before it has completed.
C1_StreamOrder ==
    /\ \A i, j \in 1..Len(DispatchLog) :
          i < j => /\ DispatchLog[i].n <= DispatchLog[j].n
                   /\ DispatchLog[i].n = DispatchLog[j].n =>
                         DispatchLog[i].ev = "begin" /\ DispatchLog[j].ev = "end"
    /\ \A i \in 1..Len(log) :
          log[i].ev = "begin" =>
             \A k \in 1..Len(parsed) :
                parsed[k].no < log[i].n =>
                   \E j \in 1..(i - 1) : log[j].ev = "end" /\ log[j].n = parsed[k].no

C1_Witness ==
    /\ RunReturned
    /\ Len(DispatchLog) = 2 * MaxLen
    /\ \E i, j \in 1..Len(DispatchLog) :
          i < j /\ DispatchLog[i].by = 1 /\ DispatchLog[j].by = 0

InRetraceOrParse ==
    {"run_parse", "leg_pre", "leg_dispatch", "leg_retrace", "leg_post", "leg_parse"}

\* C2: at most one thread is inside retraceCall or parse_call, and a thread
\* that has handed the baton over begins no dispatch before a baton has
\* been handed to it again.
C2_SingleActive ==
    /\ Cardinality({t \in Legs : pc[t] \in InRetraceOrParse}) <= 1
    /\ \A i, j \in 1..Len(log) :
          (i < j /\ log[i].ev = "baton" /\ log[i].by # log[i].to
                 /\ log[j].ev = "begin" /\ log[j].by = log[i].by)
          => \E k \in (i + 1)..(j - 1) : log[k].ev = "baton" /\ log[k].to = log[i].by

\* a runner has handed the baton over and has not yet gone back to waiting
\* while the receiver is already retracing
C2_Witness ==
    \E t, u \in Legs :
        /\ t # u
        /\ pc[t] \in {"recv_unlock", "recv_signal", "race_check"}
        /\ pc[u] \in {"leg_dispatch", "leg_retrace", "leg_parse"}

\* every thread the run has started
StartedThreads == {l \in Legs \ {0} : started[l] > 0}

AllFinished == RunReturned /\ \A l \in StartedThreads : pc[l] = "done"

C4_ExactlyOnce ==
    /\ \A k \in 1..Len(parsed) :
          /\ Cardinality(EventsOf("begin", parsed[k].no)) <= 1
          /\ Cardinality(EventsOf("end", parsed[k].no)) <= 1
          /\ RunReturned => /\ Cardinality(EventsOf("begin", parsed[k].no)) = 1
                            /\ Cardinality(EventsOf("end", parsed[k].no)) = 1
    /\ \A i \in 1..Len(log) :
          log[i].ev = "finish" => log[i].was = NoCallNo /\ (log[i].to = 0 => log[i].fin)
    /\ finished[0] => eos
    /\ RunReturned => eos /\ \A l \in Legs : baton[l] = NullCall

C4_Witness ==
    /\ RunReturned
    /\ Len(parsed) = MaxLen
    /\ \E k \in 1..Len(parsed) : parsed[k].thread_id # 0
    /\ finished[0]

\* C5: a leg never gets a second thread, the fore runner has none, and each
\* call is dispatched by the thread of the runner of its recorded thread id.
C5_OwnThread ==
    /\ \A l \in Legs : started[l] <= 1
    /\ started[0] = 0
    /\ \A l \in Legs \ {0} : (pc[l] # "unborn") = (started[l] = 1)
    /\ \A i \in 1..Len(log) :
          log[i].ev \in {"begin", "end"} => log[i].by = ThreadOf(log[i].n)

\* leg 1 received the baton twice and its one thread dispatched both calls
C5_Witness ==
    /\ started[1] = 1
    /\ Cardinality({i \in 1..Len(log) : log[i].ev = "baton" /\ log[i].to = 1}) >= 2
    /\ Cardinality({i \in 1..Len(log) : log[i].ev = "end" /\ log[i].by = 1}) >= 2

\* C6: when run() returns every thread a runner started has terminated.
C6_JoinedAtReturn == RunReturned => \A l \in StartedThreads : pc[l] = "done"

\* C7: at most one runner holds a baton; a baton is only written into an
\* empty slot of a runner that is not finished and whose leg is the call's
\* thread id.
C7_OneBaton ==
    /\ Cardinality({l \in Legs : baton[l] # NullCall}) <= 1
    /\ \A i \in 1..Len(log) :
          log[i].ev = "baton" =>
             /\ log[i].was = NoCallNo
             /\ ~log[i].fin
             /\ log[i].to = ThreadOf(log[i].n)

\* the fore runner got the first baton directly and a later one from leg 1
C7_Witness ==
    /\ \E i \in 1..Len(log) : log[i].ev = "baton" /\ log[i].to = 0 /\ log[i].by = 0
    /\ \E i \in 1..Len(log) : log[i].ev = "baton" /\ log[i].to = 0 /\ log[i].by = 1
    /\ baton[0] # NullCall

DumpsSucceed == \A i \in 1..Len(log) : log[i].ev # "nodump"

\* the call numbered n has been dispatched exactly once
DispatchedOnce(n) ==
    Cardinality(EventsOf("begin", n)) = 1 /\ Cardinality(EventsOf("end", n)) = 1

\* C8: with -D T and dumpState succeeding, the process exits right after
\* the dispatch of the first call of the stream whose number is at least T:
\* that call is the last one parsed, every call before it has been
\* dispatched, nothing follows its dispatch, and run() does not return.
C8_DumpExit ==
    LET T == cfg.dumpStateCallNo
    IN  DumpsSucceed =>
          /\ \A k \in 1..Len(parsed) :
                (parsed[k].no >= T /\ EventsOf("end", parsed[k].no) # {}) =>
                   /\ k = Len(parsed)
                   /\ \A j \in 1..(k - 1) : parsed[j].no < T
                   /\ exited \/ pc[parsed[k].thread_id] = "leg_post"
          /\ exited =>
                /\ Len(log) >= 2
                /\ log[Len(log)].ev = "dump"
                /\ log[Len(log)].n = parsed[Len(parsed)].no
                /\ log[Len(log)].n >= T
                /\ log[Len(log) - 1].ev = "end"
                /\ log[Len(log) - 1].n = log[Len(log)].n
                /\ \A k \in 1..Len(parsed) : DispatchedOnce(parsed[k].no)
                /\ ~RunReturned /\ ~eos
          /\ RunReturned => \A k \in 1..Len(parsed) : parsed[k].no < T

\* the dump happened on a thread other than the fore runner's, after an
\* earlier call had been dispatched
C8_Witness ==
    /\ exited /\ DumpsSucceed
    /\ cfg.dumpStateCallNo >= 1
    /\ Len(parsed) >= 2
    /\ log[Len(log)].ev = "dump" /\ log[Len(log)].by # 0

\* positions of the events named e in the snapshot history of the call in hand
ShotsOf(e) == {i \in 1..Len(shots) : shots[i].ev = e}

\* C9: once a call c is retraced, takeSnapshot was invoked exactly once
\* before its dispatch (index c.no with END_FRAME, else c.no - 1 in unsigned
\* arithmetic) if a frequency contains c and c swaps the render target,
\* exactly once after its dispatch with index c.no if a frequency contains c
\* and c does not swap, and not at all otherwise.
C9_SnapshotPlacement ==
    \A self \in Legs :
       pc[self] = "leg_parse" =>
          LET c == call[self]
              wanted == \/ Contains(cfg.snapshotFrequency, c)
                        \/ Contains(cfg.compareFrequency, c)
          IN  /\ \E b, e \in 1..Len(shots) :
                    /\ ShotsOf("begin") = {b} /\ ShotsOf("end") = {e} /\ b < e
                    /\ shots[b].n = c.no /\ shots[e].n = c.no
                    /\ wanted /\ c.swapRT =>
                          \E i \in 1..Len(shots) :
                             /\ ShotsOf("snap") = {i}
                             /\ i < b
                             /\ shots[i].n = IF c.endFrame THEN c.no
                                             ELSE (c.no - 1) % UINT_MOD
                    /\ wanted /\ ~c.swapRT =>
                          \E i \in 1..Len(shots) :
                             /\ ShotsOf("snap") = {i}
                             /\ i > e
                             /\ shots[i].n = c.no
              /\ ~wanted => ShotsOf("snap") = {}

\* a call that swaps the render target without ending a frame was
\* snapshot under the previous call's number
C9_Witness ==
    \E self \in Legs :
       /\ pc[self] = "leg_parse"
       /\ call[self].swapRT /\ ~call[self].endFrame /\ call[self].no >= 1
       /\ \E i \in ShotsOf("snap") : shots[i].n = call[self].no - 1

\* C10: when the reference image of a snapshot index is missing the call
\* is still dispatched, no compare line is printed, and with snapshotPrefix
\* set and a framebuffer that can be captured the snapshot is still written.
C10_MissingReference ==
    \A self \in Legs :
       pc[self] = "leg_parse" =>
          \A i \in ShotsOf("noref") :
             /\ ShotsOf("begin") # {} /\ ShotsOf("end") # {}
             /\ \A j \in ShotsOf("compare") : shots[j].n # shots[i].n
             /\ (cfg.snapshotPrefix /\ shots[i].fin) =>
                   \E j \in ShotsOf("write") : shots[j].n = shots[i].n

\* the events of the history at which thread t finished the dispatch of a call
EndsBy(t) == {i \in 1..Len(log) : log[i].ev = "end" /\ log[i].by = t}

\* thread t flushed its rendering before event i and dispatched nothing between
FlushedBefore(t, i) ==
    \E j \in 1..(i - 1) :
        /\ log[j].ev = "flush" /\ log[j].by = t
        /\ \A k \in EndsBy(t) : k < j \/ k > i

\* C11: on end-of-stream the worker that parsed the null call invokes
\* flushRendering before it notifies the lead worker (leg # 0) or before it
\* sets its own finished flag (leg = 0): every end-of-stream finish is
\* preceded by a flush of the same thread that follows its last dispatch.
C11_FlushAtEnd ==
    \A i \in 1..Len(log) :
        (log[i].ev = "finish" /\ log[i].to = 0) => FlushedBefore(log[i].by, i)

\* a handoff of a call by another thread's worker
ForeignPasses == {i \in 1..Len(log) : log[i].ev = "baton" /\ log[i].by # log[i].to}

\* C12: every handoff that follows a dispatch is preceded by a flush: when a
\* worker that has dispatched at least one call passes a foreign call on,
\* flushRendering has run on the passer's thread after its last dispatch and
\* before the receiver's baton is set, hence before the receiver dispatches
\* the call.
C12_FlushBeforeHandoff ==
    \A i \in ForeignPasses :
        /\ (\E k \in EndsBy(log[i].by) : k < i) => FlushedBefore(log[i].by, i)
        /\ \A j \in EventsOf("begin", log[i].n) : i < j

C12_Witness ==
    \E i \in ForeignPasses :
        /\ log[i].by = 1 /\ log[i].to = 2
        /\ \E k \in EndsBy(1) : k < i
        /\ EventsOf("end", log[i].n) # {}

\* C13: an empty trace makes run() return immediately: when the first parse
\* returns no call, nothing is dispatched, no snapshot is taken, no non-lead
\* worker or thread is created, the lead worker's loop and stopRunners are
\* never entered, and frameNo is 0 when run() has returned.
C13_EmptyTrace ==
    (eos /\ parsed = <<>>) =>
        /\ RunReturned
        /\ log = <<>> /\ shots = <<>>
        /\ runners = <<TRUE>> /\ \A l \in Legs : started[l] = 0
        /\ \A l \in Legs \ {0} : pc[l] = "unborn"
        /\ \A l \in Legs : mutex[l] = Free /\ ~finished[l] /\ baton[l] = NullCall
        /\ it = 0
        /\ frameNo = 0

C13_Witness == eos /\ parsed = <<>> /\ RunReturned /\ cfg.snapshotPrefix /\ cfg.comparePrefix

\* callNo tells the number of the call dispatched last
CallNoIsLast ==
    DispatchLog # <<>> => callNo = DispatchLog[Len(DispatchLog)].n

\* a step that changes callNo is the assignment by the one active worker
CallNoWriter ==
    callNo' # callNo =>
        \E self \in Legs :
            /\ pc[self] = "leg_dispatch" /\ pc'[self] = "leg_retrace"
            /\ callNo' = call[self].no
            /\ \A l \in Legs \ {self} : pc[l] \notin InRetraceOrParse

\* C14 (as stated): whenever the dispatch of a call c has completed and no
\* later call has started being processed callNo equals c.no; callNo is
\* written only by the active worker and never decreases during a run.
C14_CallNoNeverDecreases ==
    /\ []CallNoIsLast
    /\ [][CallNoWriter /\ callNo' >= callNo]_vars

\* C14 (amended): whenever the dispatch of a call c has completed and no later
\* call has started being processed callNo equals c.no; callNo is written
\* only by the active worker and never decreases after the first dispatch
\* of a run (callNo is not reset between trace files, so the first dispatch
\* of a later file may lower it).
C14_CallNo ==
    /\ []CallNoIsLast
    /\ [][CallNoWriter /\ (DispatchLog # <<>> => callNo' >= callNo)]_vars

\* a run whose calls were dispatched by two threads, callNo at the last number
C14_Witness ==
    /\ RunReturned /\ Len(parsed) = MaxLen /\ callNo = MaxLen - 1
    /\ \E i, j \in 1..Len(log) :
          log[i].ev = "end" /\ log[j].ev = "end" /\ log[i].by # log[j].by

\* C15: with frameComplete invoked exactly once for each dispatched END_FRAME
\* call and for no other, frameNo always equals the number of END_FRAME calls
\* of the current trace dispatched so far: it is 0 until a dispatch has
\* returned and never exceeds the number of dispatches that have returned.
C15_FrameCount ==
    /\ frameNo = endFrames
    /\ frameNo <= Cardinality({i \in 1..Len(log) : log[i].ev = "end"})
    /\ \A self \in Legs :
          (pc[self] = "leg_post" /\ call[self].endFrame) => frameNo >= 1

\* a run of two calls of which exactly one ended a frame
C15_Witness ==
    /\ RunReturned /\ Len(parsed) = SnapLen /\ frameNo = SnapLen - 1

IsPrefix(p, q) == Len(p) <= Len(q) /\ p = SubSeq(q, 1, Len(p))

\* the option loop has stopped at the argument --
StoppedAtEnd == cmd.brk \in 1..Len(cmd.argv) /\ cmd.argv[cmd.brk] = ARG_END

\* C16: -- ends option parsing and is itself not a trace file: of a command
\* line OPTIONS -- FILE1 .. FILEn exactly FILE1 .. FILEn are opened and
\* replayed, in order.
C16_EndOfOptions ==
    StoppedAtEnd =>
        LET files == SubSeq(cmd.argv, cmd.brk + 1, Len(cmd.argv))
        IN  /\ IsPrefix(cmd.opened, files)
            /\ IsPrefix(cmd.replayed, cmd.opened)
            /\ (cmd.at = "exit" /\ cmd.status = EXIT_OK) => cmd.replayed = files

\* main() is looking at an argument that starts with '-' and is none of the
\* documented options
AtUndocumented ==
    /\ cmd.at = "options" /\ cmd.i <= Len(cmd.argv)
    /\ CharAt(cmd.argv[cmd.i], 0) = "-"
    /\ cmd.argv[cmd.i] \notin Documented

\* C17: every argument that starts with '-' and is not a documented option
\* makes main() print an error and exit with status 1, no trace having been
\* replayed and no configuration flag changed by that argument.
C17_UnknownOption ==
    [][AtUndocumented =>
          /\ cmd'.at = "exit" /\ cmd'.status = EXIT_ERROR
          /\ cmd'.msg = "unknown option"
          /\ cmd'.replayed = <<>>
          /\ cmd'.opts = cmd.opts]_vars

\* the threads about to call getRunner (getForeRunner in run() and in
\* finishLine, getRunner(leg) in passBaton)
Getting == {l \in Legs : pc[l] \in {"run_fore", "pass_get", "finish_line"}}

\* the lead worker is iterating over the vector in stopRunners
Stopping ==
    \/ pc[0] = "stop_loop"
    \/ pc[0] \in {"fin_lock", "fin_set", "fin_unlock", "fin_signal"} /\ ret[0] = "stop_loop"

\* C18: the runners vector is never accessed by two threads at once when one
\* of them modifies it: a getRunner call is made by the single active worker
\* while no other thread calls getRunner, retraces or parses, and the lead
\* worker's iteration in stopRunners overlaps no getRunner call, not even
\* getRunner(0) in finishLine by a non-lead worker.
C18_RunnersVector ==
    /\ Cardinality(Getting) <= 1
    /\ \A l \in Getting : \A m \in Legs \ {l} :
          pc[m] \notin InRetraceOrParse \cup {"leg_branch"}
    /\ Stopping => Getting = {}

\* the vector has grown to its full size, a non-lead worker has been through
\* finishLine, and the lead worker is iterating in stopRunners
C18_Witness ==
    /\ pc[0] = "stop_loop" /\ it >= 1
    /\ Len(runners) = MaxLeg + 1
    /\ \E i \in 1..Len(log) : log[i].ev = "finish" /\ log[i].by # 0 /\ log[i].to = 0

\* the positions of a thread inside runRace
InRunRace ==
    {"race_lock", "race_check", "waiting", "race_exit", "leg_pre", "leg_dispatch",
     "leg_retrace", "leg_post", "leg_parse", "leg_branch", "pass_get", "recv_lock",
     "recv_set", "recv_unlock", "recv_signal", "finish_line", "fin_lock", "fin_set",
     "fin_unlock", "fin_signal"}

\* C19: when the scheduler is destroyed (~RelayRace has deleted every runner
\* after run() returned) no non-lead worker thread is still inside runRace or
\* about to lock its runner's mutex, and no worker holds a non-empty baton.
C19_QuiescentAtDestruction ==
    pc[0] = "destroyed" =>
        /\ \A l \in StartedThreads : pc[l] \notin InRunRace /\ mutex[l] # l
        /\ \A l \in Legs : baton[l] = NullCall

\* the invocations of dumpState in the history
DumpCalls == {i \in 1..Len(log) : log[i].ev \in {"dump", "nodump"}}

\* C20 (as stated): the state-dump gate is one-shot: during one run
\* dumpState is invoked at most once; if it returns false for the first call
\* at or past the threshold it is not invoked again.
C20_DumpOnce == Cardinality(DumpCalls) <= 1

\* C20 (amended): dumpState is invoked once after the dispatch of every call
\* whose number is at least dumpStateCallNo, and after no other call, until
\* an invocation returns true; at most one invocation returns true, and it
\* is the last event of the run.
C20_DumpRetried ==
    LET T == cfg.dumpStateCallNo
    IN  /\ \A i \in DumpCalls :
              /\ log[i].n >= T
              /\ i > 1 /\ log[i - 1].ev = "end" /\ log[i - 1].n = log[i].n
              /\ log[i].ev = "dump" => i = Len(log) /\ exited
        /\ \A i \in 1..Len(log) :
              (log[i].ev = "end" /\ log[i].n >= T) =>
                  IF i = Len(log) THEN pc[log[i].by] = "leg_post"
                  ELSE (i + 1) \in DumpCalls
        /\ exited => log # <<>> /\ log[Len(log)].ev = "dump"

\* dumpState failed after two calls and succeeded after the third
C20_Witness ==
    /\ exited
    /\ Cardinality({i \in DumpCalls : log[i].ev = "nodump"}) = 2

====
